---- MODULE Spec2Model ----
(***************************************************************************)
(* Developer Directory backend: the contact action                         *)
(* POST /api/developers/:id/contact (server.js), the MySQL tables it uses  *)
(* (db.js: users, developers, contacts with their keys and foreign keys),  *)
(* the admin deletions that cascade into the contact ledger, the two       *)
(* public reads of the directory with their redaction, registration and    *)
(* profile creation.                                                       *)
(*                                                                         *)
(* Every `await pool.execute(...)` of a handler is a point where other     *)
(* requests run, so a handler is a chain of steps, one per query; the      *)
(* synchronous code after a query belongs to the step of that query.       *)
(***************************************************************************)
EXTENDS Integers, FiniteSets, Sequences, TLC

\* ---------------------------------------------------------------- constants

\* The daily cap of distinct developers per company (hard-coded 10).
Limit == 10

\* remainingContacts = null (admins): a value that 10 - count never takes,
\* whatever count >= 0 is.
Null == 11

\* ------------------------------------------------------------------- bounds

\* Requests that can be in flight at the same time.
NumSlots == 3

\* Calendar days the model runs through.
MaxDay == 2

\* ----------------------------------------------------------------- universe

\* Developer ids 1..NumDevs: enough for the cap to be reached and for every
\* request in flight to ask for a developer beyond it.
NumDevs == Limit + NumSlots

DevIds == 1..NumDevs

\* An id that no developer row ever has.
NoSuchDev == NumDevs + 1

\* users.userId: student i (the only possible owner of developer i), one
\* company and one admin.
StudentIds == 1..NumDevs

CompanyId == NumDevs + 1

AdminId == NumDevs + 2

RoleOf(u) ==
  IF u \in StudentIds THEN "student"
  ELSE IF u = CompanyId THEN "company"
  ELSE "admin"

Slots == 1..NumSlots

\* contacts.id is Date.now().toString(). All that matters of a timestamp is
\* which other timestamps it equals, so a stamp is kept as the rank of its
\* millisecond among the milliseconds that a request still waiting for its
\* INSERT was stamped in: 0 is the millisecond the server clock shows now,
\* 1 the most recent earlier one still waited for, and so on. Past stands for
\* a millisecond that is over and that no waiting request was stamped in: no
\* later INSERT can carry it. In a request, Past means no stamp.
ThisMs == 0

Past == -1

VARIABLES
  users,       \* rows of table users:      [userId, role]
  developers,  \* rows of table developers: [id, userId]
  contacts,    \* rows of table contacts:   [id, userId, developerId, date]
  day,         \* new Date().toISOString().split('T')[0], as a day number
  req,         \* per slot: the contact request being handled, or its response
  prev,        \* what a caller that calls again remembers of its last response
  mk,          \* per slot: the profile creation being handled, or its response
  view         \* the latest response of GET /api/developers[/:id]

vars == <<users, developers, contacts, day, req, prev, mk, view>>

\* ------------------------------------------------------------------ queries

\* SELECT * FROM developers WHERE id = ?
DevelopersById(id) == {d \in developers : d.id = id}

\* Mutant of ExistingContacts: the already-viewed query finds nothing.
ExistingContactsNone(c, u, d, t) == {}

\* SELECT id FROM contacts WHERE userId = ? AND developerId = ? AND date = ?
ExistingContacts(c, u, d, t) ==
  {x \in c : x.userId = u /\ x.developerId = d /\ x.date = t}

\* Mutant of CountDistinct: the date is not part of the WHERE clause.
CountDistinctAnyDay(c, u, t) ==
  Cardinality({x.developerId : x \in {y \in c : y.userId = u}})

\* SELECT COUNT(DISTINCT developerId) FROM contacts WHERE userId = ? AND date = ?
CountDistinct(c, u, t) ==
  Cardinality({x.developerId : x \in {y \in c : y.userId = u /\ y.date = t}})

\* Mutant of QuotaReached: the cap is tested with > instead of >=.
QuotaReachedLate(count) == count > Limit

\* Mutant of QuotaReached: the cap is one too low.
QuotaReachedEarly(count) == count >= Limit - 1

\* if (uniqueContactsToday[0].count >= 10)
QuotaReached(count) == count >= Limit

\* Mutant of Remaining: counts down from one more than the cap.
RemainingOffByOne(count) == Limit + 1 - count

\* remainingContacts = 10 - uniqueContacts[0].count
Remaining(count) == Limit - count

\* SELECT id FROM developers WHERE userId = ?
DevelopersByOwner(ds, u) == {d \in ds : d.userId = u}

\* -------------------------------------------------------- table developers

\* id VARCHAR(255) PRIMARY KEY
DeveloperIdTaken(ds, row) == \E d \in ds : d.id = row.id

\* Mutant of DeveloperOwnerTaken: developers.userId is not UNIQUE.
DeveloperOwnerNotEnforced(ds, row) == FALSE

\* userId VARCHAR(255) UNIQUE NOT NULL
DeveloperOwnerTaken(ds, row) == \E d \in ds : d.userId = row.userId

\* FOREIGN KEY (userId) REFERENCES users(userId)
DeveloperOwnerExists(us, row) == \E x \in us : x.userId = row.userId

\* Whether INSERT INTO developers succeeds (otherwise pool.execute rejects).
DeveloperInsertAccepted(us, ds, row) ==
  /\ ~DeveloperIdTaken(ds, row)
  /\ ~DeveloperOwnerTaken(ds, row)
  /\ DeveloperOwnerExists(us, row)

\* ---------------------------------------------------------- table contacts

\* id VARCHAR(255) PRIMARY KEY: two rows stamped in the same millisecond.
PrimaryKeyTaken(c, row) == row.id # Past /\ \E x \in c : x.id = row.id

\* Mutant of UniqueContactTaken: the table has no unique_contact key.
UniqueContactNotEnforced(c, row) == FALSE

\* UNIQUE KEY unique_contact (userId, developerId, date)
UniqueContactTaken(c, row) ==
  \E x \in c : /\ x.userId = row.userId
                /\ x.developerId = row.developerId
                /\ x.date = row.date

\* FOREIGN KEY (userId) REFERENCES users, (developerId) REFERENCES developers
ForeignKeysHold(us, ds, row) ==
  /\ \E u \in us : u.userId = row.userId
  /\ \E d \in ds : d.id = row.developerId

\* Whether INSERT INTO contacts succeeds (otherwise pool.execute rejects).
InsertAccepted(us, ds, c, row) ==
  /\ ~PrimaryKeyTaken(c, row)
  /\ ~UniqueContactTaken(c, row)
  /\ ForeignKeysHold(us, ds, row)

\* Mutant of ContactsAfterDeveloperDelete: the delete does not cascade.
ContactsKeptOnDelete(c, ids) == c

\* Mutant of ContactsAfterDeveloperDelete: the delete empties the ledger.
ContactsTruncatedOnDelete(c, ids) == {}

\* ON DELETE CASCADE from developers(id) into contacts.
ContactsAfterDeveloperDelete(c, ids) == {x \in c : x.developerId \notin ids}

\* The stamps of the requests waiting for their INSERT.
Stamped(q) == {q[r].contactId : r \in {s \in DOMAIN q : q[s].contactId # Past}}

\* A stamp as a rank among the stamps `used` that are still waited for.
Canon(a, used) ==
  IF a = Past \/ a = ThisMs THEN a
  ELSE IF a \in used THEN Cardinality({b \in used : ThisMs < b /\ b <= a})
  ELSE Past

CanonContacts(c, used) == {[x EXCEPT !.id = Canon(@, used)] : x \in c}

CanonRequests(q, used) ==
  [r \in DOMAIN q |-> [q[r] EXCEPT !.contactId = Canon(@, used)]]

\* The clock leaves the current millisecond: every stamp is one further back.
Older(a) == IF a = Past THEN Past ELSE a + 1

AgedContacts(c) == {[x EXCEPT !.id = Older(@)] : x \in c}

AgedRequests(q) == [r \in DOMAIN q |-> [q[r] EXCEPT !.contactId = Older(@)]]

\* ----------------------------------------------------------------- requests

IdleRequest ==
  [pc |-> "idle", cred |-> "none", userId |-> 0, role |-> "none", devId |-> 0,
   owner |-> 0, today |-> 0, alreadyViewed |-> FALSE, contactId |-> Past,
   created |-> FALSE, result |-> "none", remaining |-> Null, full |-> FALSE,
   failed |-> FALSE]

NoResponse == [devId |-> 0, today |-> 0, result |-> "none", remaining |-> Null]

\* Two requests are enough to race a handler that nobody else interferes with.
PairOfSlots == 1..2

\* A profile creation: pc, the caller, the body's links and the answer.
IdleCreate ==
  [pc |-> "idle", userId |-> 0, github |-> "", linkedin |-> "",
   result |-> "none"]

\* No read has been answered yet.
NoView == [op |-> "none", cred |-> "none", user |-> 0, role |-> "none",
           id |-> 0, status |-> 0, data |-> {}]

Done(r) == req[r].pc = "done"

Free(r) == req[r].pc \in {"idle", "done"}

\* res.status(...).json(...): the handler ends (its contactId goes out of scope).
Responded(q, res) ==
  [q EXCEPT !.pc = "done", !.result = res, !.contactId = Past]

\* Mutant of CatchResponse: the catch block answers as if all went well.
CatchSwallowsError(q) ==
  [Responded(q, "OK") EXCEPT !.failed = TRUE, !.full = TRUE]

\* catch (error): a pool.execute of the handler rejected; 500, no data.
CatchResponse(q) == [Responded(q, "LedgerUnavailable") EXCEPT !.failed = TRUE]

\* No id has been stamped in the millisecond the clock shows.
NoFreshStamp ==
  /\ \A x \in contacts : x.id # ThisMs
  /\ \A r \in Slots : req[r].contactId # ThisMs

\* Mutant of NeedsQuotaCheck: the role is not tested.
NeedsQuotaCheckAnyRole(role, already) == ~already

\* if (req.user.role === 'company' && !alreadyViewed)
NeedsQuotaCheck(role, already) == role = "company" /\ ~already

\* Mutant of LookupOutcome: the role check comes before the self-view check.
LookupOutcomeRoleFirst(found, userId, role) ==
  IF found = {} THEN "NotFound"
  ELSE IF role = "student" THEN "RoleNotPermitted"
  ELSE IF (CHOOSE x \in found : TRUE).userId = userId THEN "SelfViewNotAllowed"
  ELSE "continue"

\* Mutant of LookupOutcome: the role check comes before the lookup's 404.
LookupOutcomeRoleBeforeNotFound(found, userId, role) ==
  IF role = "student" /\ found = {} THEN "RoleNotPermitted"
  ELSE IF found = {} THEN "NotFound"
  ELSE IF (CHOOSE x \in found : TRUE).userId = userId THEN "SelfViewNotAllowed"
  ELSE IF role = "student" THEN "RoleNotPermitted"
  ELSE "continue"

\* Mutant of LookupOutcome: students are not turned away.
LookupOutcomeNoRoleCheck(found, userId, role) ==
  IF found = {} THEN "NotFound"
  ELSE IF (CHOOSE x \in found : TRUE).userId = userId THEN "SelfViewNotAllowed"
  ELSE "continue"

\* The checks that follow SELECT * FROM developers WHERE id = ?, in the code's
\* order: 404, then 400 (own profile), then 403 (student).
LookupOutcome(found, userId, role) ==
  IF found = {} THEN "NotFound"
  ELSE IF (CHOOSE x \in found : TRUE).userId = userId THEN "SelfViewNotAllowed"
  ELSE IF role = "student" THEN "RoleNotPermitted"
  ELSE "continue"

\* -------------------------------------------------------------------- reads

\* A JavaScript object: each property holds a value, <<v>>, or undefined.
Undefined == <<>>

\* { ...dev }: an own property for every column of the row.
Spread(row) == [k \in DOMAIN row |-> <<row[k]>>]

\* { ...dev, email: undefined, github: undefined, linkedin: undefined }
Hidden(row) ==
  [Spread(row) EXCEPT !.email = Undefined, !.github = Undefined,
                      !.linkedin = Undefined]

\* Mutant of Json: an undefined property is written as an empty string.
JsonEmptyStrings(obj) ==
  [k \in DOMAIN obj |-> IF obj[k] = Undefined THEN "" ELSE obj[k][1]]

\* res.json(...): JSON.stringify leaves out the properties that are undefined
\* (a NULL column is written, as null).
Json(obj) == [k \in {j \in DOMAIN obj : obj[j] # Undefined} |-> obj[k][1]]

\* Mutant of Projection: students are treated like companies.
ProjectionHidesFromStudents(cred, role, row) ==
  IF cred = "none" THEN Hidden(row)
  ELSE IF cred = "valid"
  THEN IF role \in {"company", "student"} THEN Hidden(row) ELSE Spread(row)
  ELSE Hidden(row)

\* Mutant of Projection: a token that fails verification is waved through.
ProjectionFailOpen(cred, role, row) ==
  IF cred = "none" THEN Hidden(row)
  ELSE IF cred = "valid"
  THEN IF role = "company" THEN Hidden(row) ELSE Spread(row)
  ELSE Spread(row)

\* The branches of both read handlers: no token; a token jwt.verify accepts,
\* of a company or of anyone else; a token jwt.verify throws on (bad
\* signature or expired).
Projection(cred, role, row) ==
  IF cred = "none" THEN Hidden(row)
  ELSE IF cred = "valid"
  THEN IF role = "company" THEN Hidden(row) ELSE Spread(row)
  ELSE Hidden(row)

\* decoded.role, when there is a payload to decode.
TokenRole(cred, u) == IF cred = "valid" THEN RoleOf(u) ELSE "none"

\* GET /api/developers: status and data of the answer over the rows ds.
ListResponse(cred, role, ds) ==
  [status |-> 200, data |-> {Json(Projection(cred, role, row)) : row \in ds}]

\* GET /api/developers/:id: 404, or status and data of the answer.
SingleResponse(cred, role, found) ==
  IF found = {} THEN [status |-> 404, data |-> {}]
  ELSE [status |-> 200,
        data |-> {Json(Projection(cred, role, CHOOSE row \in found : TRUE))}]

\* Math.max(a, b).
Max(a, b) == IF a >= b THEN a ELSE b

\* GET /api/contacts/stats: isCompany answers 403 to any other role; otherwise
\* the stats object built from the COUNT(DISTINCT developerId) of today.
StatsResponse(role, count) ==
  IF role # "company" THEN [status |-> 403, data |-> {}]
  ELSE [status |-> 200,
        data |-> {[contactsToday |-> count,
                   remainingContacts |-> Max(0, Limit - count),
                   limit |-> Limit]}]

\* ------------------------------------------------------------ initial state

AllUsers == {[userId |-> u, role |-> RoleOf(u)] :
               u \in StudentIds \cup {CompanyId, AdminId}}

\* What a profile stores of its optional links: github ? github.trim() : null.
SqlNull == "NULL"

StoredLink(v) == IF v = "" THEN SqlNull ELSE v

\* The developers row POST /api/developers inserts for owner u under id.
DeveloperRow(id, u, github, linkedin) ==
  [id |-> id, userId |-> u, email |-> "mail",
   github |-> StoredLink(github), linkedin |-> StoredLink(linkedin)]

\* Student d owns developer d; some gave a github link, some a linkedin one.
AllDevelopers ==
  {DeveloperRow(d, d, IF d % 2 = 1 THEN "gh" ELSE "",
                      IF d % 3 = 1 THEN "in" ELSE "") : d \in DevIds}

\* The runs hold at most one admin deletion.
NothingDeleted == users = AllUsers /\ developers = AllDevelopers

\* ------------------------------------------------------------------ actions

\* Mutant of TokenAccepted: authenticateToken calls next() on anything.
TokenAcceptedAlways(cred) == TRUE

\* authenticateToken calls next(): there is a token and jwt.verify accepts it.
TokenAccepted(cred) == cred = "valid"

\* authenticateToken: no token (401) or a token jwt.verify rejects (403); the
\* handler never runs.
RejectCredential(r, cred) ==
  /\ Free(r)
  /\ req' = [req EXCEPT ![r] =
               IF TokenAccepted(cred)
               THEN [IdleRequest EXCEPT !.pc = "lookup", !.cred = cred]
               ELSE Responded([IdleRequest EXCEPT !.cred = cred],
                              "AuthenticationRequired")]
  /\ UNCHANGED <<users, developers, contacts, day, prev, mk, view>>

\* authenticateToken accepts the token of user u (issued at register/login and
\* valid for 7 days, whether or not the user row still exists); the handler
\* starts and awaits the developer lookup. A request that arrives after an
\* earlier response does so in a later millisecond than any stamp taken so far.
Receive(r, u, d) ==
  /\ Free(r)
  /\ NoFreshStamp
  /\ req' = [req EXCEPT ![r] =
               [IdleRequest EXCEPT !.pc = "lookup", !.cred = "valid",
                                   !.userId = u, !.role = RoleOf(u),
                                   !.devId = d]]
  /\ UNCHANGED <<users, developers, contacts, day, prev, mk, view>>

\* The same, by a caller that has read the response to its previous call.
ReceiveAgain(r, u, d) ==
  /\ Done(r)
  /\ NoFreshStamp
  /\ prev' = [devId |-> req[r].devId, today |-> req[r].today,
              result |-> req[r].result, remaining |-> req[r].remaining]
  /\ req' = [req EXCEPT ![r] =
               [IdleRequest EXCEPT !.pc = "lookup", !.cred = "valid",
                                   !.userId = u, !.role = RoleOf(u),
                                   !.devId = d]]
  /\ UNCHANGED <<users, developers, contacts, day, mk, view>>

\* SELECT * FROM developers WHERE id = ? resolves; 404 / 400 / 403, or `today`
\* is computed and the handler awaits the already-viewed query.
Lookup(r) ==
  /\ req[r].pc = "lookup"
  /\ LET q == req[r]
         found == DevelopersById(q.devId)
         out == LookupOutcome(found, q.userId, q.role)
         seen == IF found = {} THEN q
                 ELSE [q EXCEPT !.owner = (CHOOSE x \in found : TRUE).userId]
     IN req' = [req EXCEPT ![r] =
                  IF out = "continue"
                  THEN [seen EXCEPT !.today = day, !.pc = "existing"]
                  ELSE Responded(seen, out)]
  /\ UNCHANGED <<users, developers, contacts, day, prev, mk, view>>

\* SELECT id FROM contacts WHERE userId, developerId, date resolves. A company
\* with no row yet awaits the count; a company with a row awaits the final
\* count; anyone else (an admin) is answered at once with remainingContacts
\* = null.
Existing(r) ==
  /\ req[r].pc = "existing"
  /\ LET q == req[r]
         already == ExistingContacts(contacts, q.userId, q.devId, q.today) # {}
         q1 == [q EXCEPT !.alreadyViewed = already]
     IN req' = [req EXCEPT ![r] =
                  IF NeedsQuotaCheck(q.role, already)
                  THEN [q1 EXCEPT !.pc = "count"]
                  ELSE IF q.role = "company"
                  THEN [q1 EXCEPT !.pc = "remaining"]
                  ELSE [Responded(q1, "OK") EXCEPT !.remaining = Null,
                                                   !.full = TRUE]]
  /\ UNCHANGED <<users, developers, contacts, day, prev, mk, view>>

\* Mutant of Count: the event is written before the cap is tested.
CountRecordsBeforeCheck(r) ==
  /\ req[r].pc = "count"
  /\ LET q == req[r]
         count == CountDistinct(contacts, q.userId, q.today)
         row == [id |-> Past, userId |-> q.userId, developerId |-> q.devId,
                 date |-> q.today]
     IN /\ contacts' = contacts \cup {row}
        /\ req' = [req EXCEPT ![r] =
                     IF QuotaReached(count)
                     THEN Responded(q, "QuotaExceeded")
                     ELSE [q EXCEPT !.contactId = ThisMs, !.pc = "insert"]]
  /\ UNCHANGED <<users, developers, day, prev, mk, view>>

\* SELECT COUNT(DISTINCT developerId) resolves: 429 at the cap, otherwise
\* contactId = Date.now() and the handler awaits the INSERT.
Count(r) ==
  /\ req[r].pc = "count"
  /\ LET q == req[r]
         count == CountDistinct(contacts, q.userId, q.today)
     IN req' = [req EXCEPT ![r] =
                  IF QuotaReached(count)
                  THEN Responded(q, "QuotaExceeded")
                  ELSE [q EXCEPT !.contactId = ThisMs, !.pc = "insert"]]
  /\ UNCHANGED <<users, developers, contacts, day, prev, mk, view>>

\* INSERT INTO contacts resolves or rejects (a key or foreign key is violated:
\* the catch block answers 500). contactId is not used again.
Insert(r) ==
  /\ req[r].pc = "insert"
  /\ LET q == req[r]
         row == [id |-> q.contactId, userId |-> q.userId,
                 developerId |-> q.devId, date |-> q.today]
         ok == InsertAccepted(users, developers, contacts, row)
         after == [req EXCEPT ![r] =
                     IF ok THEN [q EXCEPT !.created = TRUE, !.contactId = Past,
                                          !.pc = "remaining"]
                     ELSE CatchResponse(q)]
         table == IF ok THEN contacts \cup {row} ELSE contacts
     IN /\ contacts' = CanonContacts(table, Stamped(after))
        /\ req' = CanonRequests(after, Stamped(after))
  /\ UNCHANGED <<users, developers, day, prev, mk, view>>

\* The second SELECT COUNT(DISTINCT developerId) resolves; res.json with the
\* full developer row and remainingContacts.
Respond(r) ==
  /\ req[r].pc = "remaining"
  /\ LET q == req[r]
         count == CountDistinct(contacts, q.userId, q.today)
     IN req' = [req EXCEPT ![r] =
                  [Responded(q, "OK") EXCEPT !.remaining = Remaining(count),
                                             !.full = TRUE]]
  /\ UNCHANGED <<users, developers, contacts, day, prev, mk, view>>

\* A query of the contact handler rejects although the tables would allow it
\* (the connection is lost or times out before the statement runs): nothing
\* is written and the catch block answers 500.
StorageFails(r) ==
  /\ req[r].pc \in {"lookup", "existing", "count", "insert", "remaining"}
  /\ LET after == [req EXCEPT ![r] = CatchResponse(req[r])]
     IN /\ req' = CanonRequests(after, Stamped(after))
        /\ contacts' = CanonContacts(contacts, Stamped(after))
  /\ UNCHANGED <<users, developers, day, prev, mk, view>>

\* The INSERT runs and commits but its reply never arrives (the connection is
\* lost after the statement): the row is there and the catch block answers 500.
InsertReplyLost(r) ==
  /\ req[r].pc = "insert"
  /\ LET q == req[r]
         row == [id |-> q.contactId, userId |-> q.userId,
                 developerId |-> q.devId, date |-> q.today]
         after == [req EXCEPT ![r] = [CatchResponse(q) EXCEPT !.created = TRUE]]
     IN /\ InsertAccepted(users, developers, contacts, row)
        /\ contacts' = CanonContacts(contacts \cup {row}, Stamped(after))
        /\ req' = CanonRequests(after, Stamped(after))
  /\ UNCHANGED <<users, developers, day, prev, mk, view>>

\* The query the handler awaits is never answered (the connection stays open
\* and silent, or all connections of the pool are busy and the query waits in
\* the pool's unbounded queue): no timeout is set on the pool, the query or
\* the response, so the promise never settles and the handler stays where it is.
StorageSilent(r) ==
  /\ req[r].pc \in {"lookup", "existing", "count", "insert", "remaining"}
  /\ req' = [req EXCEPT ![r] = [@ EXCEPT !.pc = "hung"]]
  /\ UNCHANGED <<users, developers, contacts, day, prev, mk, view>>

\* GET /api/developers: SELECT * FROM developers resolves and the handler
\* answers in the same step.
ListDevelopers(cred, u) ==
  /\ LET role == TokenRole(cred, u)
         res == ListResponse(cred, role, developers)
     IN view' = [op |-> "list", cred |-> cred, user |-> u, role |-> role,
                 id |-> 0, status |-> res.status, data |-> res.data]
  /\ UNCHANGED <<users, developers, contacts, day, req, prev, mk>>

\* GET /api/developers/:id: SELECT * FROM developers WHERE id = ? resolves and
\* the handler answers in the same step.
GetDeveloper(cred, u, d) ==
  /\ LET role == TokenRole(cred, u)
         res == SingleResponse(cred, role, DevelopersById(d))
     IN view' = [op |-> "single", cred |-> cred, user |-> u, role |-> role,
                 id |-> d, status |-> res.status, data |-> res.data]
  /\ UNCHANGED <<users, developers, contacts, day, req, prev, mk>>

\* GET /api/contacts/stats with the token of user u: the COUNT query resolves
\* and the handler answers in the same step.
GetStats(u) ==
  /\ LET role == TokenRole("valid", u)
         res == StatsResponse(role, CountDistinct(contacts, u, day))
     IN view' = [op |-> "stats", cred |-> "valid", user |-> u, role |-> role,
                 id |-> 0, status |-> res.status, data |-> res.data]
  /\ UNCHANGED <<users, developers, contacts, day, req, prev, mk>>

\* The server clock moves to the next millisecond.
Tick ==
  /\ ~NoFreshStamp
  /\ LET used == Stamped(AgedRequests(req))
     IN /\ contacts' = CanonContacts(AgedContacts(contacts), used)
        /\ req' = CanonRequests(AgedRequests(req), used)
  /\ UNCHANGED <<users, developers, day, prev, mk, view>>

\* The UTC date changes.
NextDay ==
  /\ day < MaxDay
  /\ day' = day + 1
  /\ UNCHANGED <<users, developers, contacts, req, prev, mk, view>>

\* DELETE /api/admin/developers/:id: the row and, by cascade, its contacts.
DeleteDeveloper(d) ==
  /\ DevelopersById(d) # {}
  /\ developers' = developers \ DevelopersById(d)
  /\ contacts' = ContactsAfterDeveloperDelete(contacts, {d})
  /\ UNCHANGED <<users, day, req, prev, mk, view>>

\* DELETE /api/admin/users/:userId: the row and, by cascade, the user's
\* developer row, the contacts the user made and the contacts of that
\* developer.
DeleteUser(u) ==
  /\ \E x \in users : x.userId = u
  /\ LET gone == {d \in developers : d.userId = u}
     IN /\ users' = {x \in users : x.userId # u}
        /\ developers' = developers \ gone
        /\ contacts' =
             ContactsAfterDeveloperDelete(
               {x \in contacts : x.userId # u}, {d.id : d \in gone})
  /\ UNCHANGED <<day, req, prev, mk, view>>

\* POST /api/auth/register of user u: INSERT INTO users.
Register(u) ==
  /\ \A x \in users : x.userId # u
  /\ users' = users \cup {[userId |-> u, role |-> RoleOf(u)]}
  /\ UNCHANGED <<developers, contacts, day, req, prev, mk, view>>

\* id = Date.now().toString() of a profile creation: the requests of the
\* model are stamped in milliseconds of their own, so the id tells the owner
\* and the slot apart.
NewDevId(u, r) == NoSuchDev + NumSlots * u + r

\* POST /api/developers with the token of user u: isStudent answers 403 to
\* anyone but a student; the body is valid and the handler awaits the
\* existing-profile query.
CreateReceive(r, u, github, linkedin) ==
  /\ mk[r].pc \in {"idle", "done"}
  /\ LET q == [IdleCreate EXCEPT !.userId = u, !.github = github,
                                 !.linkedin = linkedin]
     IN mk' = [mk EXCEPT ![r] =
                 IF RoleOf(u) # "student"
                 THEN [q EXCEPT !.pc = "done", !.result = "StudentRequired"]
                 ELSE [q EXCEPT !.pc = "existing"]]
  /\ UNCHANGED <<users, developers, contacts, day, req, prev, view>>

\* SELECT id FROM developers WHERE userId = ? resolves: 400 when the caller
\* has a profile, otherwise id = Date.now() and the handler awaits the INSERT.
CreateExisting(r) ==
  /\ mk[r].pc = "existing"
  /\ mk' = [mk EXCEPT ![r] =
              IF DevelopersByOwner(developers, mk[r].userId) # {}
              THEN [@ EXCEPT !.pc = "done", !.result = "ProfileExists"]
              ELSE [@ EXCEPT !.pc = "insert"]]
  /\ UNCHANGED <<users, developers, contacts, day, req, prev, view>>

\* INSERT INTO developers resolves, or rejects and the catch block answers 500.
CreateInsert(r) ==
  /\ mk[r].pc = "insert"
  /\ LET q == mk[r]
         row == DeveloperRow(NewDevId(q.userId, r), q.userId, q.github,
                             q.linkedin)
     IN IF DeveloperInsertAccepted(users, developers, row)
        THEN /\ developers' = developers \cup {row}
             /\ mk' = [mk EXCEPT ![r] = [q EXCEPT !.pc = "select"]]
        ELSE /\ developers' = developers
             /\ mk' = [mk EXCEPT ![r] =
                         [q EXCEPT !.pc = "done", !.result = "StorageError"]]
  /\ UNCHANGED <<users, contacts, day, req, prev, view>>

\* SELECT * FROM developers WHERE id = ? resolves: 201.
CreateRespond(r) ==
  /\ mk[r].pc = "select"
  /\ mk' = [mk EXCEPT ![r] = [@ EXCEPT !.pc = "done", !.result = "Created"]]
  /\ UNCHANGED <<users, developers, contacts, day, req, prev, view>>

\* The rows the company made today by viewing developers 1..k one after the
\* other, each in a millisecond of its own.
ViewedPrefix(k) ==
  {[id |-> Past, userId |-> CompanyId, developerId |-> d, date |-> 1] :
     d \in 1..k}

\* Ledgers the concurrent runs start from: one view below the cap, and the cap.
InitViewed == {Limit - 1, Limit}

\* Who calls, and on which ids: the company, the admin and the student who
\* owns developer 1; a developer inside every starting ledger, one beyond the
\* cap, and an id with no row.
Callers == {CompanyId, AdminId, 1}

Targets == {1, Limit + 1, NoSuchDev}

Init ==
  /\ users = AllUsers
  /\ developers = AllDevelopers
  /\ \E k \in InitViewed : contacts = ViewedPrefix(k)
  /\ day = 1
  /\ req = [r \in Slots |-> IdleRequest]
  /\ prev = NoResponse
  /\ mk = [r \in PairOfSlots |-> IdleCreate]
  /\ view = NoView

\* Slots are interchangeable: a new request takes the lowest free one.
LowestFree(r) == Free(r) /\ \A s \in 1..(r - 1) : ~Free(s)

Next ==
  \/ \E r \in PairOfSlots, cred \in {"none", "invalid"} :
       LowestFree(r) /\ RejectCredential(r, cred)
  \/ \E r \in PairOfSlots, u \in Callers, d \in Targets :
       LowestFree(r) /\ Receive(r, u, d)
  \/ \E r \in PairOfSlots : Lookup(r)
  \/ \E r \in PairOfSlots : Existing(r)
  \/ \E r \in PairOfSlots : Count(r)
  \/ \E r \in PairOfSlots : Insert(r)
  \/ \E r \in PairOfSlots : Respond(r)
  \/ Tick
  \/ NextDay
  \/ NothingDeleted /\ DeleteDeveloper(1)
  \/ \E u \in {1, CompanyId} : NothingDeleted /\ DeleteUser(u)

Spec == Init /\ [][Next]_vars

\* ---------------------------------------------------------------------------
\* One company racing itself: up to NumSlots requests in flight. The request
\* in slot r asks for the developer that fills the cap (shared with the other
\* slots) or for a developer beyond the cap that no other slot asks for.
RaceTargets(r) == {Limit, Limit + r}

NextRace ==
  \/ \E r \in Slots : \E d \in RaceTargets(r) :
       LowestFree(r) /\ Receive(r, CompanyId, d)
  \/ \E r \in Slots : Lookup(r)
  \/ \E r \in Slots : Existing(r)
  \/ \E r \in Slots : Count(r)
  \/ \E r \in Slots : Insert(r)
  \/ \E r \in Slots : Respond(r)
  \/ Tick

SpecRace == Init /\ [][NextRace]_vars

\* ---------------------------------------------------------------------------
\* The same race while the company, or the admin, asks for the quota status.
NextQuota ==
  \/ \E r \in Slots : \E d \in RaceTargets(r) :
       LowestFree(r) /\ Receive(r, CompanyId, d)
  \/ \E r \in Slots : Lookup(r)
  \/ \E r \in Slots : Existing(r)
  \/ \E r \in Slots : Count(r)
  \/ \E r \in Slots : Insert(r)
  \/ \E r \in Slots : Respond(r)
  \/ Tick
  \/ \E u \in {CompanyId, AdminId} : GetStats(u)

SpecQuota == Init /\ [][NextQuota]_vars

\* ---------------------------------------------------------------------------
\* One company calling sequentially on one day, from an empty ledger: each
\* call is made
\* after the response to the one before. Developers are interchangeable to the
\* handler, so the company takes new developers in id order.
ViewedToday == {x.developerId :
                  x \in {y \in contacts : y.userId = CompanyId /\ y.date = day}}

SeqTargets ==
  LET fresh == DevIds \ ViewedToday
  IN  ViewedToday \cup {NoSuchDev}
        \cup {d \in fresh : \A e \in fresh : d <= e}

InitSeq ==
  /\ users = AllUsers
  /\ developers = AllDevelopers
  /\ contacts = {}
  /\ day = 1
  /\ req = [r \in Slots |-> IdleRequest]
  /\ prev = NoResponse
  /\ mk = [r \in PairOfSlots |-> IdleCreate]
  /\ view = NoView

NextSeq ==
  \/ \E d \in SeqTargets : req[1].pc = "idle" /\ Receive(1, CompanyId, d)
  \/ \E d \in SeqTargets : ReceiveAgain(1, CompanyId, d)
  \/ Lookup(1)
  \/ Existing(1)
  \/ Count(1)
  \/ Insert(1)
  \/ Respond(1)
  \/ Tick

SpecSeq == InitSeq /\ [][NextSeq]_vars

\* ---------------------------------------------------------------------------
\* One company calling sequentially on one day while storage operations may
\* fail: the day starts empty, one view below the cap, or at the cap, and the
\* company asks for a developer it has viewed or for the next new one.
InitFault ==
  /\ users = AllUsers
  /\ developers = AllDevelopers
  /\ \E k \in {0} \cup InitViewed : contacts = ViewedPrefix(k)
  /\ day = 1
  /\ req = [r \in Slots |-> IdleRequest]
  /\ prev = NoResponse
  /\ mk = [r \in PairOfSlots |-> IdleCreate]
  /\ view = NoView

FaultTargets ==
  LET fresh == DevIds \ ViewedToday
  IN  {d \in ViewedToday : \A e \in ViewedToday : d >= e}
        \cup {d \in fresh : \A e \in fresh : d <= e}

NextFault ==
  \/ \E d \in FaultTargets : req[1].pc = "idle" /\ Receive(1, CompanyId, d)
  \/ \E d \in FaultTargets : ReceiveAgain(1, CompanyId, d)
  \/ Lookup(1)
  \/ Existing(1)
  \/ Count(1)
  \/ Insert(1)
  \/ Respond(1)
  \/ StorageFails(1)
  \/ InsertReplyLost(1)
  \/ Tick

SpecFault == InitFault /\ [][NextFault]_vars

\* ---------------------------------------------------------------------------
\* The same calls when a query may also stay unanswered. Node runs the
\* continuation of an await once its promise has settled, so every step of the
\* handler that storage has answered is eventually taken.
NextLive ==
  \/ \E d \in FaultTargets : req[1].pc = "idle" /\ Receive(1, CompanyId, d)
  \/ \E d \in FaultTargets : ReceiveAgain(1, CompanyId, d)
  \/ Lookup(1)
  \/ Existing(1)
  \/ Count(1)
  \/ Insert(1)
  \/ Respond(1)
  \/ StorageFails(1)
  \/ StorageSilent(1)
  \/ Tick

HandlerStep == Lookup(1) \/ Existing(1) \/ Count(1) \/ Insert(1) \/ Respond(1)

SpecLive == InitFault /\ [][NextLive]_vars /\ WF_vars(HandlerStep)

\* ---------------------------------------------------------------------------
\* One company calling sequentially on one day, from a ledger at or just
\* below the cap, while the admin deletes a developer or a developer's owner.
AdminTargets == {1, Limit + 1, Limit + 2}

NextAdmin ==
  \/ \E d \in AdminTargets : req[1].pc = "idle" /\ Receive(1, CompanyId, d)
  \/ \E d \in AdminTargets : ReceiveAgain(1, CompanyId, d)
  \/ Lookup(1)
  \/ Existing(1)
  \/ Count(1)
  \/ Insert(1)
  \/ Respond(1)
  \/ Tick
  \/ \E d \in {1, 2} : NothingDeleted /\ DeleteDeveloper(d)
  \/ NothingDeleted /\ DeleteUser(1)

SpecAdmin == Init /\ [][NextAdmin]_vars

\* ---------------------------------------------------------------------------
\* The directory: a student registers and creates a profile (racing
\* themselves), the owner of developer Limit and the company try the same,
\* the company views developer Limit, and the admin deletes once.
LateStudent == NumDevs

Creators == {LateStudent, Limit, CompanyId}

DirUsers == {x \in AllUsers : x.userId # LateStudent}

DirDevelopers == {d \in AllDevelopers : d.userId # LateStudent}

\* The runs hold at most one admin deletion.
DirNothingDeleted == DirUsers \subseteq users /\ DirDevelopers \subseteq developers

InitDir ==
  /\ users = DirUsers
  /\ developers = DirDevelopers
  /\ contacts = ViewedPrefix(Limit - 1)
  /\ day = 1
  /\ req = [r \in Slots |-> IdleRequest]
  /\ prev = NoResponse
  /\ mk = [r \in PairOfSlots |-> IdleCreate]
  /\ view = NoView

\* A token exists for a user who has registered.
HasToken(u) == \E x \in DirUsers \cup users : x.userId = u

NextDir ==
  \/ Register(LateStudent)
  \/ \E r \in PairOfSlots, u \in Creators, github \in {"", "gh"} :
       HasToken(u) /\ CreateReceive(r, u, github, "")
  \/ \E r \in PairOfSlots : CreateExisting(r)
  \/ \E r \in PairOfSlots : CreateInsert(r)
  \/ \E r \in PairOfSlots : CreateRespond(r)
  \/ Receive(1, CompanyId, Limit)
  \/ Lookup(1)
  \/ Existing(1)
  \/ Count(1)
  \/ Insert(1)
  \/ Respond(1)
  \/ Tick
  \/ \E d \in {1, Limit} : DirNothingDeleted /\ DeleteDeveloper(d)
  \/ \E u \in {Limit, CompanyId} : DirNothingDeleted /\ DeleteUser(u)

SpecDir == InitDir /\ [][NextDir]_vars

\* ---------------------------------------------------------------------------
\* The reads: anyone reads the list or a record of a small directory, while a
\* student adds a profile to it and the admin deletes once.
\* Who reads: nobody in particular (no token, or a token that fails
\* verification), students 1 and 2 (the one the admin may delete, whose token
\* jwt.verify goes on accepting), the company, the admin.
Readers == {<<"none", 0>>, <<"invalid", 0>>, <<"valid", 1>>, <<"valid", 2>>,
            <<"valid", CompanyId>>, <<"valid", AdminId>>}

ReadTargets == {1, NoSuchDev}

\* Profiles with both links, with none and with one.
ReadDevelopers == {d \in AllDevelopers : d.id \in 1..3}

ReadNothingDeleted == users = AllUsers /\ ReadDevelopers \subseteq developers

InitRead ==
  /\ users = AllUsers
  /\ developers = ReadDevelopers
  /\ contacts = {}
  /\ day = 1
  /\ req = [r \in Slots |-> IdleRequest]
  /\ prev = NoResponse
  /\ mk = [r \in PairOfSlots |-> IdleCreate]
  /\ view = NoView

NextRead ==
  \/ \E who \in Readers : ListDevelopers(who[1], who[2])
  \/ \E who \in Readers, d \in ReadTargets : GetDeveloper(who[1], who[2], d)
  \/ \E github \in {"", "gh"} : CreateReceive(1, LateStudent, github, "in")
  \/ CreateExisting(1)
  \/ CreateInsert(1)
  \/ CreateRespond(1)
  \/ ReadNothingDeleted /\ DeleteDeveloper(1)
  \/ ReadNothingDeleted /\ DeleteUser(2)

SpecRead == InitRead /\ [][NextRead]_vars

\* ---------------------------------------------------------------------------
\* ---------------------------------------------------------------------------
\* The life of a ledger from its first row: the ledger starts empty and every
\* slot carries one request of the company, so that the requests of the run
\* are all in view. Two developers are asked for and the admin may delete the
\* first.
OnceTargets == {1, 2}

NextOnce ==
  \/ \E r \in Slots, d \in OnceTargets :
       req[r].pc = "idle" /\ (\A s \in 1..(r - 1) : req[s].pc # "idle")
         /\ Receive(r, CompanyId, d)
  \/ \E r \in Slots : Lookup(r)
  \/ \E r \in Slots : Existing(r)
  \/ \E r \in Slots : Count(r)
  \/ \E r \in Slots : Insert(r)
  \/ \E r \in Slots : Respond(r)
  \/ Tick
  \/ NothingDeleted /\ DeleteDeveloper(1)

SpecOnce == InitSeq /\ [][NextOnce]_vars

\* ---------------------------------------------------------------------------
\* One company calling sequentially across days: the first day's ledger is at
\* the cap or one view below it; the company asks for a developer it viewed
\* on the first day or for one it never viewed.
DayTargets == {1, Limit + 1}

NextDays ==
  \/ \E d \in DayTargets : req[1].pc = "idle" /\ Receive(1, CompanyId, d)
  \/ \E d \in DayTargets : ReceiveAgain(1, CompanyId, d)
  \/ Lookup(1)
  \/ Existing(1)
  \/ Count(1)
  \/ Insert(1)
  \/ Respond(1)
  \/ Tick
  \/ NextDay

SpecDays == Init /\ [][NextDays]_vars

\* ---------------------------------------------------------------------------
\* Properties

\* The developers viewer u has an event for on day t.
DistinctViewed(u, t) ==
  {x.developerId : x \in {y \in contacts : y.userId = u /\ y.date = t}}

\* The events of the key (u, d, t).
EventsOf(u, d, t) ==
  {x \in contacts : x.userId = u /\ x.developerId = d /\ x.date = t}

Days == 1..MaxDay

\* C1: in every reachable state the ledger holds at most one event for each
\* triple (viewerUserId, developerId, day).
C1_UniqueTriple ==
  \A x \in contacts : \A y \in contacts :
    (x.userId = y.userId /\ x.developerId = y.developerId /\ x.date = y.date)
      => x = y

\* C1 witness: two requests for the same key have both finished, one created
\* the event and the other's INSERT was refused.
C1_Witness ==
  \E r1 \in Slots : \E r2 \in Slots :
    /\ Done(r1) /\ Done(r2)
    /\ req[r1].userId = req[r2].userId
    /\ req[r1].devId = req[r2].devId
    /\ req[r1].today = req[r2].today
    /\ req[r1].created /\ req[r1].result = "OK"
    /\ ~req[r2].created /\ req[r2].result = "LedgerUnavailable"
    /\ Cardinality(EventsOf(req[r1].userId, req[r1].devId, req[r1].today)) = 1

\* C2: sequential calls. A company whose ledger held exactly Limit distinct
\* developers for the day when it called is answered QuotaExceeded on a
\* developer it had not viewed (and nothing is recorded), and OK on any
\* developer it had viewed.
C2_QuotaBoundary ==
  LET q == req[1]
      n == Cardinality(DistinctViewed(q.userId, q.today))
      before == IF q.created THEN n - 1 ELSE n
      viewedBefore == EventsOf(q.userId, q.devId, q.today) # {} /\ ~q.created
  IN  (Done(1) /\ q.devId \in DevIds /\ before = Limit) =>
        IF viewedBefore
        THEN q.result = "OK"
        ELSE q.result = "QuotaExceeded" /\ ~q.created
               /\ EventsOf(q.userId, q.devId, q.today) = {}

\* C2 witness: at the cap, the company was refused an 11th developer and then
\* re-viewed one of the ten.
C2_Witness ==
  /\ prev.result = "QuotaExceeded"
  /\ Done(1) /\ req[1].result = "OK" /\ req[1].alreadyViewed
  /\ req[1].today = prev.today
  /\ Cardinality(DistinctViewed(CompanyId, req[1].today)) = Limit

\* C3: sequential calls. When the company repeats, on the same day, the call
\* it has just been answered OK for, the second call is answered OK, creates
\* no event (the key still has exactly one) and returns the remainingQuota of
\* the first.
C3_Idempotent ==
  LET q == req[1]
  IN  (Done(1) /\ prev.result = "OK" /\ prev.devId = q.devId
         /\ q.today = prev.today) =>
        /\ q.result = "OK"
        /\ ~q.created
        /\ Cardinality(EventsOf(q.userId, q.devId, q.today)) = 1
        /\ q.remaining = prev.remaining

\* C3 witness: a first view that consumed quota, repeated.
C3_Witness ==
  /\ Done(1) /\ req[1].result = "OK"
  /\ prev.result = "OK" /\ prev.devId = req[1].devId
  /\ prev.today = req[1].today
  /\ prev.remaining = Limit - 1

\* C4: two requests of the same company for the same developer and day, both
\* below the cap, both complete without error and exactly one event exists
\* for the key.
C4_DuplicateAbsorbed ==
  \A r1 \in Slots : \A r2 \in Slots :
    (/\ r1 # r2 /\ Done(r1) /\ Done(r2)
     /\ req[r1].role = "company" /\ req[r1].userId = req[r2].userId
     /\ req[r1].devId = req[r2].devId
     /\ req[r1].today = req[r2].today /\ req[r1].today # 0
     /\ req[r1].result # "QuotaExceeded" /\ req[r2].result # "QuotaExceeded")
    => /\ req[r1].result = "OK" /\ req[r2].result = "OK"
       /\ Cardinality(EventsOf(req[r1].userId, req[r1].devId,
                                req[r1].today)) = 1

\* C5: under any interleaving of one company's concurrent requests, the
\* distinct developers of one viewer and day never exceed Limit + 1.
C5_AtMostOnePastCap ==
  \A t \in Days : Cardinality(DistinctViewed(CompanyId, t)) <= Limit + 1

\* What the handler does guarantee in place of C5: every request that passes
\* the count check saw at most Limit - 1, so with at most NumSlots requests of
\* the viewer in flight the distinct developers of one viewer and day never
\* exceed Limit - 1 + NumSlots.
C5_OvershootBounded ==
  \A t \in Days :
    Cardinality(DistinctViewed(CompanyId, t))
      + Cardinality({r \in Slots : req[r].pc = "insert" /\ req[r].today = t})
      <= Limit - 1 + NumSlots

\* Every slot raced past the check and that bound is met.
C5_Witness ==
  Cardinality(DistinctViewed(CompanyId, 1)) = Limit - 1 + NumSlots

\* C6: a request is answered QuotaExceeded only in a state whose ledger holds
\* at least Limit distinct developers for its viewer and day, and only for a
\* developer that viewer had no event for when the handler looked.
C6_QuotaOnlyAtCap ==
  [][\A r \in Slots :
       (req[r].result # "QuotaExceeded" /\ req'[r].result = "QuotaExceeded")
         => /\ req[r].role = "company"
            /\ ~req[r].alreadyViewed
            /\ Cardinality(DistinctViewed(req[r].userId, req[r].today))
                 >= Limit]_vars

\* C6 witness: a company was refused at the cap.
C6_Witness ==
  \E r \in Slots :
    /\ Done(r) /\ req[r].result = "QuotaExceeded"
    /\ Cardinality(DistinctViewed(req[r].userId, req[r].today)) = Limit

\* C7: sequential calls by one company. Every OK answer carries Limit minus
\* the distinct developers recorded for the viewer and day after the call.
\* From an empty day: below the cap every call is answered OK, a call that
\* records a new developer returns one less than the OK answer before it on
\* that day (9, 8, ..., 0), a re-view returns the same value (0 at the cap),
\* and a new developer at the cap is answered QuotaExceeded.
C7_SequentialRemaining ==
  LET q == req[1]
      n == Cardinality(DistinctViewed(q.userId, q.today))
      before == IF q.created THEN n - 1 ELSE n
      follows == prev.result = "OK" /\ prev.today = q.today
  IN  (Done(1) /\ q.devId \in DevIds) =>
        /\ q.result = "OK" => q.remaining = Limit - n
        /\ before < Limit => q.result = "OK"
        /\ (q.created /\ before = 0) => q.remaining = Limit - 1
        /\ (q.created /\ follows) => q.remaining = prev.remaining - 1
        /\ (q.result = "OK" /\ ~q.created /\ follows) =>
             q.remaining = prev.remaining
        /\ (before = Limit /\ q.result = "OK") => q.remaining = 0
        /\ (before >= Limit /\ ~q.alreadyViewed) =>
             q.result = "QuotaExceeded"

\* C7 witness: after the ten views, developer 1 was re-viewed with 0 left and
\* the 11th developer was then refused.
C7_Witness ==
  /\ prev.devId = 1 /\ prev.result = "OK" /\ prev.remaining = 0
  /\ Done(1) /\ req[1].devId = Limit + 1
  /\ req[1].result = "QuotaExceeded" /\ req[1].today = prev.today

C9_SelfViewRejected ==
  \A r \in Slots :
    (Done(r) /\ req[r].cred = "valid" /\ req[r].owner = req[r].userId)
      => req[r].result = "SelfViewNotAllowed"

\* C9 witness: a student called on their own record while the company's
\* ledger was at the cap.
C9_Witness ==
  \E r \in Slots :
    /\ Done(r) /\ req[r].role = "student" /\ req[r].owner = req[r].userId
    /\ req[r].result = "SelfViewNotAllowed"
    /\ Cardinality(DistinctViewed(CompanyId, day)) = Limit

\* C10 as claimed: a student's request on any existing developer is answered
\* RoleNotPermitted.
C10_StudentAlwaysRoleNotPermitted ==
  \A r \in Slots :
    (Done(r) /\ req[r].role = "student" /\ req[r].owner # 0)
      => req[r].result = "RoleNotPermitted"

\* C10 amended: a student's request on an existing developer that the student
\* does not own is answered RoleNotPermitted.
C10_StudentOnOthersRoleNotPermitted ==
  \A r \in Slots :
    (Done(r) /\ req[r].role = "student" /\ req[r].owner # 0
       /\ req[r].owner # req[r].userId)
      => req[r].result = "RoleNotPermitted"

\* C10 witness: a student was turned away from another student's record.
C10_Witness ==
  \E r \in Slots :
    /\ Done(r) /\ req[r].role = "student" /\ req[r].owner # 0
    /\ req[r].owner # req[r].userId
    /\ req[r].result = "RoleNotPermitted"

\* The contact fields of a developer record.
ContactFields == {"email", "github", "linkedin"}

\* C11: what the list read and the single-record read answer to a caller
\* without a token and to a company never has a property email, github or
\* linkedin (the property is absent: no empty string, no null).
C11_ContactFieldsAbsent ==
  (view.cred = "none" \/ (view.cred = "valid" /\ view.role = "company"))
    => \A rec \in view.data : DOMAIN rec \cap ContactFields = {}

\* C11 witness: a company or a caller without a token got records whose
\* stored links are not empty, stripped of the contact fields and of nothing
\* else.
C11_Witness ==
  /\ view.status = 200 /\ view.data # {}
  /\ view.cred = "none" \/ view.role = "company"
  /\ \A rec \in view.data : DOMAIN rec = {"id", "userId"}
  /\ \E d \in developers : d.github # SqlNull /\ d.linkedin # SqlNull

\* C12: what the list read and the single-record read answer to a student or
\* an admin is the stored rows themselves: every column, the contact fields
\* with their stored values.
C12_FullForStudentAndAdmin ==
  [][(view' # view /\ view'.cred = "valid"
        /\ view'.role \in {"student", "admin"})
       => view'.data = IF view'.op = "list" THEN developers
                       ELSE DevelopersById(view'.id)]_vars

\* C12 witness: a student has read a list that holds a profile created
\* during the run and profiles with and without links.
C12_Witness ==
  /\ view.op = "list" /\ view.role = "student" /\ view.status = 200
  /\ \E rec \in view.data : rec.userId = LateStudent /\ rec.email = "mail"
  /\ \E rec \in view.data : rec.github = SqlNull
  /\ \E rec \in view.data : rec.github = "gh" /\ rec.linkedin = "in"

\* C13: the answer of either read to a token that fails verification (bad
\* signature or expired) is the answer the same request gets with no token,
\* in every stored state.
C13_InvalidLikeAnonymous ==
  [][(view' # view /\ view'.cred = "invalid") =>
       LET same == IF view'.op = "list"
                   THEN ListResponse("none", "none", developers)
                   ELSE SingleResponse("none", "none",
                                       DevelopersById(view'.id))
       IN view'.status = same.status /\ view'.data = same.data]_vars

\* C13 witness: a record with stored links was read with a token that fails
\* verification.
C13_Witness ==
  /\ view.op = "single" /\ view.cred = "invalid" /\ view.status = 200
  /\ \E d \in developers : d.id = view.id /\ d.github # SqlNull

\* C14: a contact request without a token, or with a token that fails
\* verification, is answered AuthenticationRequired when it is received and
\* never enters the handler: the developer is not looked up (so neither the
\* self-view nor the role check runs), the ledger is not queried and nothing
\* is inserted.
C14_RejectedBeforeChecks ==
  \A r \in Slots :
    (req[r].cred \in {"none", "invalid"} /\ req[r].pc # "idle") =>
      /\ req[r].pc = "done"
      /\ req[r].result = "AuthenticationRequired"
      /\ req[r].owner = 0 /\ req[r].today = 0
      /\ ~req[r].alreadyViewed /\ ~req[r].created /\ ~req[r].full

\* C14 witness: a request without a token and one with a bad token have been
\* turned away while the ledger held events.
C14_Witness ==
  /\ Done(1) /\ req[1].cred = "none"
  /\ Done(2) /\ req[2].cred = "invalid"
  /\ req[1].result = "AuthenticationRequired"
  /\ req[2].result = "AuthenticationRequired"
  /\ contacts # {}

\* The answers that refuse a call.
Refusals ==
  {"NotFound", "SelfViewNotAllowed", "RoleNotPermitted", "QuotaExceeded"}

\* C15: no step of a contact call up to and including its refusal (NotFound,
\* SelfViewNotAllowed, RoleNotPermitted, QuotaExceeded) changes the ledger,
\* and a refused call has inserted nothing.
C15_RefusalRecordsNothing ==
  [][\A r \in Slots :
       /\ (req'[r] # req[r] /\ req[r].pc \notin {"insert", "remaining"})
            => contacts' = contacts
       /\ req'[r].result \in Refusals => ~req'[r].created]_vars

\* C15 witness: one call was refused for the cap and another for its target
\* or its caller, and the ledger is the one the run started from.
C15_Witness ==
  \E r1 \in Slots : \E r2 \in Slots :
    /\ Done(r1) /\ req[r1].result = "QuotaExceeded"
    /\ Done(r2)
    /\ req[r2].result \in {"NotFound", "SelfViewNotAllowed", "RoleNotPermitted"}
    /\ contacts = ViewedPrefix(Limit)

\* C18: in every reachable state, concurrent profile creations by one student
\* included, no two developer records have the same owner.
C18_OneRecordPerOwner ==
  \A d1 \in developers : \A d2 \in developers :
    d1.userId = d2.userId => d1 = d2

\* C18 witness: two creations by one student both passed the existing-profile
\* check; one was created, the other's INSERT was refused, and the student has
\* one record.
C18_Witness ==
  /\ mk[1].pc = "done" /\ mk[2].pc = "done"
  /\ mk[1].userId = LateStudent /\ mk[2].userId = LateStudent
  /\ {mk[1].result, mk[2].result} = {"Created", "StorageError"}
  /\ Cardinality(DevelopersByOwner(developers, LateStudent)) = 1

\* C19: in every reachable state every event refers to an existing viewer and
\* an existing developer record, and every developer record to an existing
\* owner (so a deleted user's record and events, and a deleted developer's
\* events, are gone with it).
C19_ReferencesExist ==
  /\ \A x \in contacts :
       /\ \E u \in users : u.userId = x.userId
       /\ \E d \in developers : d.id = x.developerId
  /\ \A d \in developers : \E u \in users : u.userId = d.userId

\* C19 witness: a student registered and created a profile, the owner of a
\* viewed developer was deleted, and the company's view of that developer,
\* which had found the record, could not insert its event.
C19_Witness ==
  /\ DevelopersByOwner(developers, LateStudent) # {}
  /\ \A u \in users : u.userId # Limit
  /\ DevelopersById(Limit) = {}
  /\ Done(1) /\ req[1].owner = Limit /\ req[1].result = "LedgerUnavailable"
  /\ contacts # {}

\* C20: every step keeps every event of the ledger, with its viewer,
\* developer and day, unless the step deletes the event's viewer or its
\* developer record.
C20_EventsStay ==
  [][\A x \in contacts :
       \/ \E y \in contacts' :
            /\ y.userId = x.userId /\ y.developerId = x.developerId
            /\ y.date = x.date
            /\ x.id = Past => y.id = Past
       \/ \A u \in users' : u.userId # x.userId
       \/ \A d \in developers' : d.id # x.developerId]_vars

\* C20 witness: an event recorded during the run is still in the ledger
\* after the clock moved on, a student registered and created a profile, and
\* the admin deleted another developer.
C20_Witness ==
  /\ Done(1) /\ req[1].created /\ req[1].devId = Limit
  /\ EventsOf(CompanyId, Limit, req[1].today)
       = {[id |-> Past, userId |-> CompanyId, developerId |-> Limit,
           date |-> req[1].today]}
  /\ DevelopersById(1) = {}
  /\ DevelopersByOwner(developers, LateStudent) # {}

\* C16 as claimed, read in the claim's favour (the repeated call is for an
\* existing developer and meets no storage failure itself): after a call that
\* failed on storage, the repeated call leaves exactly one event for (viewer,
\* developer, day).
C16_RetryLeavesOneEvent ==
  LET q == req[1]
  IN  (Done(1) /\ prev.result = "LedgerUnavailable" /\ prev.devId = q.devId
         /\ ~q.failed /\ q.owner # 0) =>
        Cardinality(EventsOf(q.userId, q.devId, day)) = 1

\* What holds of a repeated call: at most one event for the key, exactly one
\* when the call is answered OK, and none that it made when it is refused.
C16_RetryOutcome ==
  LET q == req[1]
      n == Cardinality(EventsOf(q.userId, q.devId, day))
  IN  (Done(1) /\ prev.result = "LedgerUnavailable" /\ prev.devId = q.devId)
        => /\ n <= 1
           /\ q.result = "OK" => n = 1
           /\ q.result = "QuotaExceeded" => n = 0 /\ ~q.created

\* C16 amended: the step in which a storage operation of a company's call
\* fails answers LedgerUnavailable without developer data and leaves the
\* ledger as it was or with the complete new event added; every other step of
\* the call leaves the ledger as it was or adds that event; and a repeated
\* call leaves at most one event for (viewer, developer, day), exactly one
\* when it succeeds.
C16_FailureIsCleanAndRetrySafe ==
  [][LET q == req[1]
         row(id) == [id |-> id, userId |-> q.userId, developerId |-> q.devId,
                     date |-> q.today]
     IN /\ (req'[1].failed /\ ~q.failed) =>
             /\ req'[1].result = "LedgerUnavailable"
             /\ ~req'[1].full /\ req'[1].remaining = Null
        /\ req'[1].pc # q.pc =>
             \/ contacts' = contacts
             \/ \E id \in {ThisMs, Past} : contacts' = contacts \cup {row(id)}
        /\ C16_RetryOutcome']_vars

\* C16 witness: the INSERT of a first view went in but the call failed, and
\* the repeated call was answered OK with the one event in place.
C16_Witness ==
  /\ prev.result = "LedgerUnavailable" /\ prev.devId = req[1].devId
  /\ Done(1) /\ req[1].result = "OK" /\ req[1].alreadyViewed
  /\ Cardinality(EventsOf(CompanyId, req[1].devId, day)) = 1
  /\ Cardinality(contacts) = 1

\* C17: a company that has just been answered QuotaExceeded is answered
\* QuotaExceeded again when it next asks, on the same day, for an existing
\* developer it has no event for, whatever the admin deleted in between
\* (a call whose INSERT the tables reject is left aside).
C17_QuotaExceededTerminal ==
  LET q == req[1]
  IN  (Done(1) /\ prev.result = "QuotaExceeded" /\ prev.today = day
         /\ q.owner # 0 /\ ~q.alreadyViewed /\ ~q.failed)
        => q.result = "QuotaExceeded"

\* The requests of the run whose INSERT created an event for viewer u on
\* day t.
CreatedBy(u, t) ==
  {r \in Slots : req[r].created /\ req[r].userId = u /\ req[r].today = t}

\* C21: for every viewer and day, the number of distinct developers the
\* ledger counts for them never exceeds the number of requests of that viewer
\* and day whose INSERT created an event.
C21_CountWithinCreated ==
  \A u \in {CompanyId, AdminId}, t \in Days :
    Cardinality(DistinctViewed(u, t)) <= Cardinality(CreatedBy(u, t))

\* C21 witness: two requests created events on the same day, a third was
\* absorbed as a duplicate, and the ledger counts two developers.
C21_Witness ==
  /\ \A r \in Slots : Done(r)
  /\ Cardinality(CreatedBy(CompanyId, 1)) = 2
  /\ Cardinality(DistinctViewed(CompanyId, 1)) = 2
  /\ \E r \in Slots : req[r].today = 1 /\ ~req[r].created

\* C22: a quota status answered to a company reports limit = 10 and
\* remaining = limit - consumedToday, and a viewContact response of the same
\* company computed from a ledger with the same count reports the same
\* remaining quota.
C22_StatusAgreesWithViewContact ==
  (view.op = "stats" /\ view.status = 200) =>
    \A s \in view.data :
      /\ s.limit = Limit
      /\ s.remainingContacts = s.limit - s.contactsToday
      /\ \A r \in Slots :
           (Done(r) /\ req[r].result = "OK" /\ req[r].userId = view.user
              /\ req[r].remaining # Null
              /\ Limit - req[r].remaining = s.contactsToday)
             => req[r].remaining = s.remainingContacts

\* C23: every viewContact request that has been received is eventually
\* answered, with LedgerUnavailable at the latest when storage does not
\* answer.
C23_EveryRequestAnswered ==
  (req[1].pc \in {"lookup", "existing", "count", "insert", "remaining", "hung"})
    ~> Done(1)

\* C24: the answer to an authenticated viewContact request follows the fixed
\* order of the preconditions: NotFound when the lookup found no developer,
\* whoever calls and whatever the quota; else SelfViewNotAllowed when the
\* caller owns the record, student or not; else RoleNotPermitted for a
\* student; QuotaExceeded only for a company that passed all three.
C24_FixedOrder ==
  \A r \in Slots :
    LET q == req[r]
    IN  (Done(r) /\ q.cred = "valid" /\ ~q.failed) =>
          IF q.owner = 0 THEN q.result = "NotFound"
          ELSE IF q.owner = q.userId THEN q.result = "SelfViewNotAllowed"
          ELSE IF q.role = "student" THEN q.result = "RoleNotPermitted"
          ELSE /\ q.result \in {"OK", "QuotaExceeded"}
               /\ q.result = "QuotaExceeded" => q.role = "company"

\* C24 witness: a company at the cap asked for an id with no row and got
\* NotFound, a student asked for an id with no row and got NotFound, or a
\* student asked for its own record and got SelfViewNotAllowed; the runs
\* reach all three, and here the first and the third together.
C24_Witness ==
  /\ Done(1) /\ req[1].userId = CompanyId /\ req[1].devId = NoSuchDev
  /\ req[1].result = "NotFound"
  /\ Cardinality(DistinctViewed(CompanyId, day)) >= Limit
  /\ Done(2) /\ req[2].role = "student" /\ req[2].devId = req[2].owner
  /\ req[2].result = "SelfViewNotAllowed"

\* C24, second witness: a student asked for an id with no row and got NotFound.
C24_StudentNotFound ==
  \E r \in Slots : /\ Done(r) /\ req[r].role = "student"
                   /\ req[r].devId = NoSuchDev /\ req[r].result = "NotFound"

\* C25: the quota is per day. A viewContact call of the company whose `today`
\* is a later day than the one its ledger filled up on succeeds, whether the
\* developer is new or was viewed on the first day: the ledger then holds an
\* event of that later day for the developer, next to the first day's events,
\* and the remaining quota counts the later day's events only.
C25_QuotaPerDay ==
  LET q == req[1]
  IN  (Done(1) /\ q.today > 1 /\ ~q.failed) =>
        /\ q.result = "OK"
        /\ q.created \/ q.alreadyViewed
        /\ EventsOf(CompanyId, q.devId, q.today) # {}
        /\ ViewedPrefix(Limit - 1) \subseteq contacts
        /\ q.remaining = Limit - Cardinality(DistinctViewed(CompanyId, q.today))
        /\ q.remaining >= Limit - Cardinality(DayTargets)

\* C25 witness: the first day's ledger is at the cap; on the second day the
\* company has viewed a new developer and then a developer of the first day,
\* which created a second event for that developer and left 8 views.
C25_Witness ==
  LET q == req[1]
  IN  /\ Done(1) /\ q.today = 2 /\ q.devId = 1 /\ q.result = "OK" /\ q.created
      /\ q.remaining = Limit - 2
      /\ prev.devId = Limit + 1 /\ prev.today = 2 /\ prev.result = "OK"
      /\ Cardinality(DistinctViewed(CompanyId, 1)) = Limit
      /\ Cardinality({x \in contacts : x.developerId = 1}) = 2

\* C26: no event is lost under concurrency. Every request of a company that
\* found its developer and was not refused for the quota, while the requests
\* next to it are for other developers, ends with an event for its key
\* (viewer, developer, day) in the ledger and with success, also when one of
\* the other requests stamped its id in the same millisecond.
C26_NoEventLost ==
  \A r \in Slots :
    LET q == req[r]
    IN  (Done(r) /\ q.role = "company" /\ q.owner # 0 /\ q.owner # q.userId
           /\ q.result # "QuotaExceeded"
           /\ \A s \in Slots \ {r} : req[s].devId # q.devId)
          => /\ EventsOf(q.userId, q.devId, q.today) # {}
             /\ q.result = "OK"

\* C27: a company is given contact fields only through a successful
\* viewContact. Whenever a response with the full developer record goes out
\* to a company, the ledger holds at that moment an event for (company,
\* developer, day of the request).
C27_DisclosureHasEvent ==
  [][\A r \in Slots :
       (req'[r].full /\ ~req[r].full /\ req'[r].role = "company") =>
         \E x \in contacts' : /\ x.userId = req'[r].userId
                              /\ x.developerId = req'[r].devId
                              /\ x.date = req'[r].today]_vars

\* C28: the remaining quota answered to a company is an integer between 0
\* and 10, also when requests of the same viewer run concurrently.
C28_RemainingInRange ==
  \A r \in Slots :
    (Done(r) /\ req[r].role = "company" /\ req[r].result = "OK")
      => req[r].remaining \in 0..Limit

\* C29: once the admin has deleted a user, a read made with that user's
\* credential, which has not expired, is answered without the contact fields.
C29_DeletedUserReadsRedacted ==
  [][(view' # view /\ view'.cred = "valid"
        /\ \A x \in users : x.userId # view'.user)
       => \A rec \in view'.data : DOMAIN rec \cap ContactFields = {}]_vars

====
